---- MODULE Spec2Model ----
(***************************************************************************)
(* Batch GLB export of the NI SNAPS add-on (src/NI_SNAPS.py):              *)
(* OBJECT_OT_ni_snaps_batch_export_glb.execute and _export_group, the      *)
(* proximity grouping they use, and the helpers they call.                 *)
(*                                                                         *)
(* Lengths are integers in tenths of a scene unit (10 is 1.0, 9 is 0.9).   *)
(* math.sqrt is monotone on non-negative numbers, so every comparison the  *)
(* code makes between two distances (d <= padding, d < best_d) is made     *)
(* here between their squares.                                             *)
(***************************************************************************)
EXTENDS Integers, Sequences, FiniteSets, TLC

\* ------------------------------------------------------------------ bounds
NumMeshes == 3
NumMarkers == 2
MaxDeletes == 1

\* ----------------------------------------------------------------- objects
Meshes == 1 .. NumMeshes
Markers == (NumMeshes + 1) .. (NumMeshes + NumMarkers)
Objects == Meshes \cup Markers
None == 0

\* o.type of an object of bpy.data.objects
ObjType(o) == IF o \in Meshes THEN "MESH" ELSE "EMPTY"

\* ------------------------------------------------------------- mathutils
VAdd(a, b) == <<a[1] + b[1], a[2] + b[2], a[3] + b[3]>>
VNeg(a) == <<0 - a[1], 0 - a[2], 0 - a[3]>>
Zero3 == <<0, 0, 0>>

Max2(a, b) == IF a >= b THEN a ELSE b
Max3(a, b, c) == Max2(a, Max2(b, c))

\* The elements of a set of integers in increasing order: the order in which
\* the host iterates bpy.data.objects and context.selected_objects here.
RECURSIVE SeqOf(_)
SeqOf(S) ==
    IF S = {} THEN <<>>
    ELSE LET m == CHOOSE x \in S : \A y \in S : x <= y
         IN <<m>> \o SeqOf(S \ {m})

Range(s) == {s[i] : i \in 1 .. Len(s)}

\* ---------------------------------------------------------------- geometry
\* bound_box of every mesh: the cube [-1.0, 1.0]^3 in local coordinates
BoundBoxMin == <<0 - 10, 0 - 10, 0 - 10>>
BoundBoxMax == <<10, 10, 10>>

\* world_aabb(obj): min and max corner of matrix_world @ bound_box, for a
\* matrix_world that is the translation mw
world_aabb(mw) == [min |-> VAdd(mw, BoundBoxMin), max |-> VAdd(mw, BoundBoxMax)]

\* inflate_aabb(a_min, a_max, pad)
inflate_aabb(a, pad) ==
    [min |-> <<a.min[1] - pad, a.min[2] - pad, a.min[3] - pad>>,
     max |-> <<a.max[1] + pad, a.max[2] + pad, a.max[3] + pad>>]

\* One axis of aabb_min_distance: max(0.0, b_min - a_max, a_min - b_max)
AxisGap(a, b, i) == Max3(0, b.min[i] - a.max[i], a.min[i] - b.max[i])

\* aabb_min_distance(a_min, a_max, b_min, b_max), squared
aabb_min_distance_sq(a, b) ==
    AxisGap(a, b, 1) * AxisGap(a, b, 1)
    + AxisGap(a, b, 2) * AxisGap(a, b, 2)
    + AxisGap(a, b, 3) * AxisGap(a, b, 3)

\* ------------------------------------------------------------------- state
VARIABLES
    matrix_world,     \* mesh -> translation of obj.matrix_world
    ni_source,        \* marker -> the mesh its "ni_source" tag names, or None
    users_collection, \* marker -> the mesh whose sub-collection holds it; None: the root
    children,         \* root.children: the meshes a sub-collection is named after
    location,         \* obj.location of every object
    objects,          \* bpy.data.objects: the objects that exist
    selected,         \* context.selected_objects
    active,           \* view_layer.objects.active, or None
    hidden,           \* objects hidden in the viewport (hide_get())
    settings,         \* context.scene.ni_snap_settings (NISnapSettings)
    root,             \* bpy.data.collections.get(s.collection_name) is not None
    isdir,            \* os.path.isdir(out_dir_abs)
    pc,               \* position of the operator call
    depth,            \* number of re-entries of execute
    result,           \* what execute returned
    reports,          \* self.report calls, in order
    orig_active,      \* execute's local
    orig_selected,    \* execute's local
    primaries,        \* execute's local (empty on the per-object path)
    assignment,       \* execute's local: primary -> set of extras
    queue,            \* meshes the export loop has still to visit
    exported,         \* execute's local counter
    group,            \* arguments of the running _export_group call
    loc_backup,       \* _export_group's local
    outcome,          \* what the exporter call did, until _export_group has used it
    location0,        \* history: every location when _export_group was entered
    calls,            \* history: every exporter invocation
    rets,             \* history: every _export_group return value
    escaped,          \* the step whose exception left execute, or "none"
    deletes,          \* number of objects deleted during exporter calls
    images,           \* bpy.data.images: image -> img.size
    tex_size_enum,    \* s.tex_size_enum, as the integer it names
    saved,            \* history: image -> the last size it was saved with, and from what
    cursor,           \* context.scene.cursor.location
    cursor_backup,    \* preserve_cursor's local, backup
    origin_op,        \* the origin operator that is running, or "none"
    cursor0,          \* history: the cursor location when the operator was invoked
    name,             \* mesh -> obj.name, a sequence of pieces
    template_marker,  \* s.template_marker
    depsgraph_update_post, \* bpy.app.handlers.depsgraph_update_post: handler names
    load_post,        \* bpy.app.handlers.load_post: handler names, in order
    msgbus,           \* keys of the subscriptions owned by _NS_MSGBUS_OWNER
    timers,           \* number of registered _ns_selection_watchdog timers
    ns_watchdog_running,  \* global _ns_watchdog_running
    ns_watchdog_stop,     \* global _ns_watchdog_stop
    ns_watchdog_last_sig, \* global _ns_watchdog_last_sig
    sig,              \* what _ns_build_selection_signature() returns now
    addon             \* history: "imported", then the last of register() and unregister()

sceneVars == <<matrix_world, ni_source, users_collection, children, root, isdir>>
hostVars == <<location, objects, selected, active, hidden, settings>>
opVars == <<pc, depth, result, reports, orig_active, orig_selected, primaries,
            assignment, queue, exported, group, loc_backup, outcome,
            location0, calls, rets, escaped, deletes>>
texVars == <<images, tex_size_enum, saved>>
cursorVars == <<cursor, cursor_backup, origin_op, cursor0>>
nameVars == <<name, template_marker>>
handlerVars == <<depsgraph_update_post, load_post, msgbus>>
watchdogVars == <<timers, ns_watchdog_running, ns_watchdog_stop, ns_watchdog_last_sig>>
addonVars == <<handlerVars, watchdogVars, sig, addon>>
toolVars == <<texVars, cursorVars, nameVars, addonVars>>
vars == <<sceneVars, hostVars, opVars, toolVars>>

\* ---------------------------------------------------------------- helpers
\* Whether point p lies in box a (the 1e-6 slack of the code is below the
\* resolution of the grid)
InBox(p, a) == \A i \in 1 .. 3 : a.min[i] <= p[i] /\ p[i] <= a.max[i]

\* get_related_empties_for_object(obj, settings, root_coll), as a set.
\* Every marker is an EMPTY whose name starts with settings.empty_name and
\* is linked under the root collection, either directly or in the
\* sub-collection named after a mesh.
related_empties(obj, s, rt, objs, src, coll, loc, mw) ==
    IF ~rt THEN {}
    ELSE IF s.make_subcollections
    THEN LET in_sub == {e \in Markers \cap objs : coll[e] = obj}
             tagged == {e \in Markers \cap objs : src[e] = obj}
         IN IF in_sub # {} THEN in_sub ELSE tagged
    ELSE LET tagged == {e \in Markers \cap objs : coll[e] = None /\ src[e] = obj}
             inside == {e \in Markers \cap objs :
                          coll[e] = None /\ InBox(loc[e], world_aabb(mw[obj]))}
         IN IF tagged # {} THEN tagged ELSE inside

Related(obj) ==
    related_empties(obj, settings, root, objects, ni_source, users_collection,
                    location, matrix_world)

\* float(max(0.0, s.proximity_padding))
Padding(s) == Max2(0, s.proximity_padding)

\* Mutant of Eligible: the test made strict, d < padding
EligibleStrict(d_sq, padding) == d_sq < padding * padding

\* The test of line 1505, d <= padding
Eligible(d_sq, padding) == d_sq <= padding * padding

\* Mutant of Better: every eligible primary replaces the best so far
BetterLast(d_sq, best_p, best_d_sq) == TRUE

\* Mutant of Better: a primary just as near replaces the best so far
BetterOrEqual(d_sq, best_p, best_d_sq) == best_p = None \/ d_sq <= best_d_sq

\* The test of line 1506, (best_d is None) or (d < best_d)
Better(d_sq, best_p, best_d_sq) == best_p = None \/ d_sq < best_d_sq

\* Distance of line 1504: from the primary's AABB inflated by padding to the
\* candidate's AABB
InflatedDist(p, extra, padding, mw) ==
    aabb_min_distance_sq(inflate_aabb(world_aabb(mw[p]), padding),
                         world_aabb(mw[extra]))

\* The inner loop of lines 1500-1507 from primaries[i] on: the best primary
RECURSIVE BestFrom(_, _, _, _, _, _, _)
BestFrom(extra, prims, i, best_p, best_d, padding, mw) ==
    IF i > Len(prims) THEN best_p
    ELSE LET p == prims[i]
             d == InflatedDist(p, extra, padding, mw)
         IN IF Eligible(d, padding) /\ Better(d, best_p, best_d)
            THEN BestFrom(extra, prims, i + 1, p, d, padding, mw)
            ELSE BestFrom(extra, prims, i + 1, best_p, best_d, padding, mw)

BestPrimary(extra, prims, padding, mw) ==
    BestFrom(extra, prims, 1, None, 0, padding, mw)

\* Mutant of ExtrasCandidates: the primaries are not left out
ExtrasCandidatesWithPrimaries(prims, objs, hid) ==
    {o \in objs : ObjType(o) = "MESH" /\ o \notin hid}

\* extras_candidates of line 1491
ExtrasCandidates(prims, objs, hid) ==
    {o \in objs : ObjType(o) = "MESH" /\ o \notin hid /\ o \notin Range(prims)}

\* assignment of lines 1498-1509: primary -> set of extras (empty elsewhere)
Assign(prims, cands, padding, mw) ==
    [p \in Meshes |->
        IF p \in Range(prims)
        THEN {e \in cands : BestPrimary(e, prims, padding, mw) = p}
        ELSE {}]

\* ------------------------------------------------------------ the operator
\* self.report(level, message)
Report(level, what) == reports' = Append(reports, [level |-> level, msg |-> what])

\* sel_meshes of line 1452, in the host's order
SelMeshes == SeqOf({o \in selected : ObjType(o) = "MESH"})

\* primaries of line 1485
Primaries(sel_meshes) == SelectSeq(sel_meshes, LAMBDA o : Related(o) # {})

\* Mutant of InvalidDir: the directory is not checked
InvalidDirIgnored == FALSE

\* The test of line 1448, not os.path.isdir(out_dir_abs)
InvalidDir == ~isdir

NoGroup == [main |-> None, snaps |-> {}, extras |-> {}]

\* execute, lines 1442-1509: from the call to the first _export_group call
\* (or to the return, or to the re-entry of line 1489)
\* Mutant of Fallback: the setting is left on before execute is re-entered
FallbackKeeps(s) == s

\* Line 1488: s.include_nearby_meshes = False, before execute is re-entered
Fallback(s) == [s EXCEPT !.include_nearby_meshes = FALSE]

Execute ==
    /\ pc = "execute"
    /\ UNCHANGED <<sceneVars, toolVars, location, objects, selected, active, hidden>>
    /\ UNCHANGED <<exported, group, loc_backup, outcome, location0, calls, rets,
                   escaped, deletes>>
    /\ IF InvalidDir
       THEN /\ Report("ERROR", "Output directory is invalid")
            /\ result' = "CANCELLED"
            /\ pc' = "done"
            /\ UNCHANGED <<settings, depth, orig_active, orig_selected,
                           primaries, assignment, queue>>
       ELSE IF SelMeshes = <<>>
       THEN /\ Report("WARNING", "No mesh objects selected")
            /\ result' = "CANCELLED"
            /\ pc' = "done"
            /\ UNCHANGED <<settings, depth, orig_active, orig_selected,
                           primaries, assignment, queue>>
       ELSE IF ~settings.include_nearby_meshes
       THEN /\ orig_active' = active
            /\ orig_selected' = selected
            /\ primaries' = <<>>
            /\ assignment' = [p \in Meshes |-> {}]
            /\ queue' = SelMeshes
            /\ pc' = "begin"
            /\ UNCHANGED <<settings, depth, result, reports>>
       ELSE IF Primaries(SelMeshes) = <<>>
       THEN /\ Report("INFO", "No primaries with NI_SNAP empties found")
            /\ settings' = Fallback(settings)
            /\ depth' = depth + 1
            /\ orig_active' = active
            /\ orig_selected' = selected
            /\ pc' = "execute"
            /\ UNCHANGED <<result, primaries, assignment, queue>>
       ELSE LET prims == Primaries(SelMeshes)
                cands == ExtrasCandidates(prims, objects, hidden)
            IN /\ orig_active' = active
               /\ orig_selected' = selected
               /\ primaries' = prims
               /\ assignment' = Assign(prims, cands, Padding(settings), matrix_world)
               /\ queue' = prims
               /\ pc' = "begin"
               /\ UNCHANGED <<settings, depth, result, reports>>

\* The objects of a group in the order of loc_backup's keys
GroupSeq(g) == <<g.main>> \o SeqOf(g.snaps) \o SeqOf(g.extras)
GroupSet(g) == {g.main} \cup g.snaps \cup g.extras

\* Host calls of _export_group between the offset and the exporter call that
\* can raise: the selection loop, select_set, the active setter, the path
HostSteps == {"clear", "select", "active", "path"}

\* Mutant of Extras: every primary is exported with the extras of all
ExtrasOfAll(assign, obj) == UNION {assign[p] : p \in Meshes}

\* extras of line 1515, list(assignment.get(obj, set())); [] on line 1467
Extras(assign, obj) == assign[obj]

\* Whether name ends with the piece marker (str.endswith on line 504)
EndsWith(nm, marker) == Len(nm) > 0 /\ nm[Len(nm)] = marker

\* strip_marker(name, marker), lines 503-506: one trailing marker is cut off
\* when the marker is not empty
strip_marker(nm, marker) ==
    IF marker # "" /\ EndsWith(nm, marker) THEN SubSeq(nm, 1, Len(nm) - 1) ELSE nm

\* bpy.path.clean_name on line 1402: every character other than a letter
\* or a digit becomes "_"
clean_name(nm) == [i \in 1 .. Len(nm) |-> IF nm[i] = "." THEN "_" ELSE nm[i]]

\* Mutant of FilePath: the marker is not stripped
FilePathRaw(nm, marker) == clean_name(nm) \o <<".glb">>

\* Lines 1401-1403: the file of a group inside out_dir_abs
FilePath(nm, marker) == clean_name(strip_marker(nm, marker)) \o <<".glb">>

\* o.select_set(True) of lines 1396-1398 and 1472-1474 over objs: the host
\* selects an object only when it is selectable, and an object hidden in
\* the viewport is not; the call returns without raising
SelectSet(objs, hid) == objs \ hid

\* Mutant of Moved: the offset is subtracted instead of added
MovedAway(loc, members, offset) ==
    [o \in Objects |-> IF o \in members THEN VAdd(loc[o], VNeg(offset)) ELSE loc[o]]

\* Lines 1386-1392: main_obj.location += offset, then e.location += offset
\* for every marker and every extra
Moved(loc, members, offset) ==
    [o \in Objects |-> IF o \in members THEN VAdd(loc[o], offset) ELSE loc[o]]

\* _export_group, lines 1376-1403, for the next mesh of the loop (lines
\* 1465-1467 or 1513-1516): backup, offset, selection, active object, path.
\* fault is the host call that raises, or "none".
ExportGroupBegin(fault) ==
    /\ pc = "begin"
    /\ queue # <<>>
    /\ LET obj == Head(queue)
           g == [main |-> obj, snaps |-> Related(obj), extras |-> Extras(assignment, obj)]
           offset == VNeg(location[obj])
           moved == Moved(location, GroupSet(g), offset)
       IN /\ group' = g
          /\ loc_backup' = [o \in GroupSet(g) |-> location[o]]
          /\ location0' = location
          /\ location' = moved
          /\ selected' = CASE fault = "clear" -> selected
                           [] fault = "select" -> {}
                           [] OTHER -> SelectSet(GroupSet(g), hidden)
          /\ active' = IF fault \in {"clear", "select", "active"} THEN active ELSE obj
          /\ IF fault = "none"
             THEN pc' = "exporter" /\ UNCHANGED escaped
             ELSE pc' = "raised" /\ escaped' = fault
    /\ queue' = Tail(queue)
    /\ UNCHANGED <<sceneVars, toolVars, objects, hidden, settings>>
    /\ UNCHANGED <<depth, result, reports, orig_active, orig_selected, primaries,
                   assignment, exported, outcome, calls, rets, deletes>>

\* What bpy.ops.export_scene.gltf can do: return {'FINISHED'}, return
\* {'CANCELLED'} without raising, or raise
ExporterOutcomes == {"FINISHED", "CANCELLED", "RAISE"}

\* The exporter call of lines 1407-1412, made by the host: its outcome, and
\* the objects of the exported group that a hook of the exporter deletes.
Exporter(out, del) ==
    /\ pc = "exporter"
    /\ del \subseteq GroupSet(group) \cap objects
    /\ Cardinality(del) + deletes <= MaxDeletes
    /\ outcome' = out
    /\ objects' = objects \ del
    /\ selected' = selected \ del
    /\ hidden' = hidden \ del
    /\ active' = IF active \in del THEN None ELSE active
    /\ deletes' = deletes + Cardinality(del)
    /\ calls' = Append(calls, [main |-> group.main, snaps |-> group.snaps,
                               extras |-> group.extras, selected |-> selected,
                               active |-> active,
                               path |-> FilePath(name[group.main], template_marker),
                               location |-> [o \in GroupSet(group) |-> location[o]]])
    /\ pc' = "end"
    /\ UNCHANGED <<sceneVars, toolVars, location, settings>>
    /\ UNCHANGED <<depth, result, reports, orig_active, orig_selected, primaries,
                   assignment, queue, exported, group, loc_backup, location0, rets,
                   escaped>>

\* success of lines 1405-1415: True once the exporter call has returned,
\* whatever it returned; False when it raised
Success(out) == out # "RAISE"

\* Mutant of Caught: no except clause
CaughtNothing(out) == FALSE

\* The except clause of lines 1414-1415: whether it catches what the
\* exporter raised (except Exception catches every exception of the call)
Caught(out) == TRUE

\* Mutant of RestoreLocations: only the first key, the primary, is put back
RestoreFirstOnly(loc, backup, keys, n, objs) ==
    [o \in Objects |->
        IF n >= 1 /\ keys[1] = o /\ o \in objs THEN backup[o] ELSE loc[o]]

\* The finally block of lines 1416-1420 over the first n keys of loc_backup:
\* every key that is still in bpy.data.objects gets its saved location
RestoreLocations(loc, backup, keys, n, objs) ==
    [o \in Objects |->
        IF (\E i \in 1 .. n : keys[i] = o) /\ o \in objs THEN backup[o] ELSE loc[o]]

\* Number of keys of loc_backup the finally block visits. Reading o2.name of
\* an object that was removed is a read through a stale reference: the host
\* either raises ReferenceError there (stale = "raise": the loop ends before
\* that key) or the read yields a name that is in no collection (stale =
\* "read": the loop goes on).
Visited(keys, objs, stale) ==
    IF stale = "raise" /\ \E i \in 1 .. Len(keys) : keys[i] \notin objs
    THEN (CHOOSE i \in 1 .. Len(keys) :
             keys[i] \notin objs /\ \A j \in 1 .. (i - 1) : keys[j] \in objs) - 1
    ELSE Len(keys)

\* Lines 1429-1438: the objects hide_set(True) is called on
HideSet(g, success, hide_after, objs) ==
    IF success /\ hide_after THEN GroupSet(g) \cap objs ELSE {}

StaleModes(S) == IF S \subseteq objects THEN {"read"} ELSE {"read", "raise"}

\* _export_group, lines 1413-1440, and the loop's use of its return value
\* (lines 1467-1468, 1516-1517)
ExportGroupEnd(stale) ==
    /\ pc = "end"
    /\ stale \in StaleModes(GroupSet(group))
    /\ LET keys == GroupSeq(group)
           n == Visited(keys, objects, stale)
           success == Success(outcome)
       IN /\ location' = RestoreLocations(location, loc_backup, keys, n, objects)
          /\ IF outcome = "RAISE" /\ Caught(outcome)
             THEN Report("WARNING", "Failed to export")
             ELSE UNCHANGED reports
          /\ outcome' = "none"
          /\ IF n < Len(keys)
             THEN /\ pc' = "raised"
                  /\ escaped' = "restore"
                  /\ UNCHANGED <<hidden, rets, exported>>
             ELSE IF outcome = "RAISE" /\ ~Caught(outcome)
             THEN /\ pc' = "raised"
                  /\ escaped' = "exporter"
                  /\ UNCHANGED <<hidden, rets, exported>>
             ELSE /\ hidden' = hidden \cup
                          HideSet(group, success, settings.hide_after_export, objects)
                  /\ rets' = Append(rets, [main |-> group.main, ok |-> success])
                  /\ exported' = IF success THEN exported + 1 ELSE exported
                  /\ pc' = IF queue = <<>> THEN "finish" ELSE "begin"
                  /\ UNCHANGED escaped
    /\ UNCHANGED <<sceneVars, toolVars, objects, selected, active, settings>>
    /\ UNCHANGED <<depth, result, orig_active, orig_selected, primaries,
                   assignment, queue, group, loc_backup, location0, calls, deletes>>

\* Lines 1471-1474 and 1520-1523 over the first n objects of orig_selected
RestoreSelection(orig, keys, n, objs) ==
    {o \in orig : (\E i \in 1 .. n : keys[i] = o) /\ o \in objs}

\* execute, lines 1470-1479 and 1519-1528: selection and active object are
\* put back, the count is reported
ExecuteFinish(stale) ==
    /\ pc = "finish"
    /\ stale \in StaleModes(orig_selected \cup ({orig_active} \ {None}))
    /\ LET keys == SeqOf(orig_selected)
           n == Visited(keys, objects, stale)
       IN /\ selected' = SelectSet(RestoreSelection(orig_selected, keys, n, objects),
                                   hidden)
          /\ IF n < Len(keys) \/ (stale = "raise" /\ orig_active # None
                                  /\ orig_active \notin objects)
             THEN /\ pc' = "raised"
                  /\ escaped' = "finish"
                  /\ UNCHANGED <<active, result, reports>>
             ELSE /\ active' = IF orig_active # None /\ orig_active \in objects
                               THEN orig_active ELSE active
                  /\ Report("INFO", "Batch exported")
                  /\ result' = "FINISHED"
                  /\ pc' = "done"
                  /\ UNCHANGED escaped
    /\ UNCHANGED <<sceneVars, toolVars, location, objects, hidden, settings>>
    /\ UNCHANGED <<depth, orig_active, orig_selected, primaries, assignment,
                   queue, exported, group, loc_backup, outcome, location0, calls, rets,
                   deletes>>

\* ------------------------------------------------------------ initial states
\* Meshes in a row along x, sp apart
Row(sp) == [m \in Meshes |-> <<sp * (m - 1), 0, 0>>]

\* The mesh each marker was created on: the j-th marker on one of the first
\* j meshes
MarkerSites == {f \in [Markers -> Meshes] : \A e \in Markers : f[e] <= e - NumMeshes}

\* How the markers got into the scene: created with a sub-collection per
\* object, created flat under the root, or linked under the root by hand
\* without an ni_source tag
MarkerKinds == {"sub", "flat", "untagged"}

\* The locals and the history of an operator call that has not begun, the
\* host being at position at
InitCall(at) ==
    /\ pc = at
    /\ depth = 0
    /\ result = "none"
    /\ reports = <<>>
    /\ orig_active = None
    /\ orig_selected = {}
    /\ primaries = <<>>
    /\ assignment = [p \in Meshes |-> {}]
    /\ queue = <<>>
    /\ exported = 0
    /\ group = NoGroup
    /\ loc_backup = <<>>
    /\ outcome = "none"
    /\ location0 = <<>>
    /\ calls = <<>>
    /\ rets = <<>>
    /\ escaped = "none"
    /\ deletes = 0

\* The operator's state before the batch export call
InitOperator == InitCall("execute")

\* Images of the file: one texture of 1024 x 1024 each, nothing saved yet
NumImages == 1
Images == 1 .. NumImages
NoSave == [ow |-> 0, oh |-> 0, nw |-> 0, nh |-> 0]

\* Object names as Blender gives them to copies, and the default marker
InitNames ==
    /\ name = [m \in Meshes |-> <<"Cube", ".", ToString(m)>>]
    /\ template_marker = "__SRC"

\* The module after import, lines 2692-2694 and 2787-2796: the watchdog
\* globals, and the module's own load_post hook; nothing else is installed
InitModule ==
    /\ depsgraph_update_post = <<>>
    /\ load_post = <<"_ni_snaps__on_load">>
    /\ msgbus = <<>>
    /\ timers = 0
    /\ ns_watchdog_running = FALSE
    /\ ns_watchdog_stop = FALSE
    /\ ns_watchdog_last_sig = ""
    /\ sig = ""
    /\ addon = "imported"

InitTools ==
    /\ InitNames
    /\ InitModule
    /\ images = [i \in Images |-> [w |-> 1024, h |-> 1024]]
    /\ tex_size_enum = 1024
    /\ saved = [i \in Images |-> NoSave]
    /\ cursor = Zero3
    /\ cursor_backup = Zero3
    /\ origin_op = "none"
    /\ cursor0 = Zero3

InitMarkers(site, kind) ==
    /\ ni_source = [e \in Markers |-> IF kind = "untagged" THEN None ELSE site[e]]
    /\ users_collection = [e \in Markers |-> IF kind = "sub" THEN site[e] ELSE None]
    /\ children = IF kind = "sub" THEN {site[e] : e \in Markers} ELSE {}

InitLocations(mw, site) ==
    /\ matrix_world = mw
    /\ location = [o \in Objects |->
                     IF o \in Meshes THEN mw[o] ELSE VAdd(mw[site[o]], <<10, 0, 0>>)]

Init ==
    /\ InitOperator
    /\ InitTools
    /\ \E site \in MarkerSites, kind \in MarkerKinds :
          InitMarkers(site, kind) /\ InitLocations(Row(30), site)
    /\ objects = Objects
    /\ \E S \in SUBSET Meshes :
          \/ selected = S /\ active = None
          \/ selected = S \cup {NumMeshes + 1} /\ active = 1
    /\ hidden = {}
    /\ root = TRUE
    /\ isdir \in BOOLEAN
    /\ \E inc \in BOOLEAN, pad \in {0, 10}, hide \in BOOLEAN, sub \in BOOLEAN :
          /\ (~inc => pad = 10)
          /\ settings = [include_nearby_meshes |-> inc, proximity_padding |-> pad,
                         hide_after_export |-> hide, make_subcollections |-> sub]

Next ==
    \/ Execute
    \/ \E fault \in HostSteps \cup {"none"} : ExportGroupBegin(fault)
    \/ \E out \in ExporterOutcomes, del \in SUBSET Objects : Exporter(out, del)
    \/ \E stale \in {"read", "raise"} : ExportGroupEnd(stale)
    \/ \E stale \in {"read", "raise"} : ExecuteFinish(stale)

Spec == Init /\ [][Next]_vars

\* Scenes for the runs of a call to its end: markers in sub-collections on
\* any meshes, the first marker and any meshes selected, either path of
\* execute
InitLive ==
    /\ InitOperator
    /\ InitTools
    /\ \E site \in MarkerSites :
          InitMarkers(site, "sub") /\ InitLocations(Row(30), site)
    /\ objects = Objects
    /\ \E S \in SUBSET Meshes : selected = S \cup {NumMeshes + 1}
    /\ active = 1
    /\ hidden = {}
    /\ root = TRUE
    /\ isdir = TRUE
    /\ \E inc \in BOOLEAN :
          settings = [include_nearby_meshes |-> inc, proximity_padding |-> 10,
                      hide_after_export |-> FALSE, make_subcollections |-> TRUE]

\* The operator runs in the host's main thread: a call that has begun is
\* run on, and the exporter call returns or raises
SpecLive == InitLive /\ [][Next]_vars /\ WF_vars(Next)

\* Scenes in which the first marker has been hidden in the viewport before
\* the call (the H key, or an earlier export with hide_after_export); any
\* selection of meshes, any kind of marker, either path of execute
InitHidden ==
    /\ InitOperator
    /\ InitTools
    /\ \E site \in MarkerSites, kind \in MarkerKinds :
          InitMarkers(site, kind) /\ InitLocations(Row(30), site)
    /\ objects = Objects
    /\ selected \in SUBSET Meshes
    /\ active = None
    /\ hidden = {NumMeshes + 1}
    /\ root = TRUE
    /\ isdir = TRUE
    /\ \E inc \in BOOLEAN, hide \in BOOLEAN :
          settings = [include_nearby_meshes |-> inc, proximity_padding |-> 10,
                      hide_after_export |-> hide, make_subcollections |-> TRUE]

SpecHidden == InitHidden /\ [][Next]_vars

\* Names an object of the file can have: with and without the marker, with
\* the marker twice, a copy's numbered name and the name clean_name makes
\* of it
ObjectNames ==
    {<<"Foo">>, <<"Foo", "__SRC">>, <<"Foo", "__SRC", "__SRC">>, <<"Bar">>,
     <<"Foo", ".", "001">>, <<"Foo", "_", "001">>}

\* Scenes for the file names: mesh 1 is 'Foo', the other meshes have any
\* other names (the host keeps object names distinct); the j-th marker is
\* on mesh j; all meshes are selected; either path of execute, the marker
\* setting empty or '__SRC'
InitNamed ==
    /\ InitOperator
    /\ images = [i \in Images |-> [w |-> 1024, h |-> 1024]]
    /\ tex_size_enum = 1024
    /\ saved = [i \in Images |-> NoSave]
    /\ cursor = Zero3
    /\ cursor_backup = Zero3
    /\ origin_op = "none"
    /\ cursor0 = Zero3
    /\ name \in {f \in [Meshes -> ObjectNames] :
                    /\ f[1] = <<"Foo">>
                    /\ \A a, b \in Meshes : a # b => f[a] # f[b]}
    /\ template_marker \in {"", "__SRC"}
    /\ InitModule
    /\ InitMarkers([e \in Markers |-> e - NumMeshes], "sub")
    /\ InitLocations(Row(30), [e \in Markers |-> e - NumMeshes])
    /\ objects = Objects
    /\ selected = Meshes
    /\ active = 1
    /\ hidden = {}
    /\ root = TRUE
    /\ isdir = TRUE
    /\ \E inc \in BOOLEAN :
          settings = [include_nearby_meshes |-> inc, proximity_padding |-> 10,
                      hide_after_export |-> FALSE, make_subcollections |-> TRUE]

SpecNamed == InitNamed /\ [][Next]_vars

\* ------------------------------------------- the grouping on its own
\* Places of a mesh relative to mesh 1: overlapping, touching, 1.0, 2.0,
\* 2.5 and 4.0 away along x, and two diagonal places
Positions ==
    {<<15, 0, 0>>, <<20, 0, 0>>, <<30, 0, 0>>, <<40, 0, 0>>, <<45, 0, 0>>,
     <<60, 0, 0>>, <<25, 25, 0>>, <<30, 30, 0>>}

Paddings == {0, 5, 9, 10}

\* Mesh 1 at the origin, every other mesh at one of Positions
Placements ==
    {mw \in [Meshes -> Positions \cup {Zero3}] :
        /\ mw[1] = Zero3
        /\ \A m \in Meshes \ {1} : mw[m] \in Positions}

\* Scenes in which execute takes the proximity path: markers created with a
\* sub-collection per object, any placement, padding and selection of
\* visible meshes (context.selected_objects holds no hidden object)
InitGroup ==
    /\ InitOperator
    /\ InitTools
    /\ \E site \in MarkerSites, mw \in Placements :
          InitMarkers(site, "sub") /\ InitLocations(mw, site)
    /\ objects = Objects
    /\ hidden \in {{}, {NumMeshes}}
    /\ selected \in SUBSET (Meshes \ hidden)
    /\ active = None
    /\ root = TRUE
    /\ isdir = TRUE
    /\ \E pad \in Paddings :
          settings = [include_nearby_meshes |-> TRUE, proximity_padding |-> pad,
                      hide_after_export |-> FALSE, make_subcollections |-> TRUE]

\* execute up to the first _export_group call
SpecGroup == InitGroup /\ [][Execute]_vars

\* ------------------------------- the markers of a mesh, on their own
\* Scenes for get_related_empties_for_object: markers of any kind, any
\* placement of the meshes, either value of make_subcollections; all meshes
\* are selected, so execute asks for the markers of each
InitRelated ==
    /\ InitOperator
    /\ InitTools
    /\ \E site \in MarkerSites, kind \in MarkerKinds, mw \in Placements :
          InitMarkers(site, kind) /\ InitLocations(mw, site)
    /\ objects = Objects
    /\ hidden = {}
    /\ selected = Meshes
    /\ active = None
    /\ root = TRUE
    /\ isdir = TRUE
    /\ \E sub \in BOOLEAN :
          settings = [include_nearby_meshes |-> TRUE, proximity_padding |-> 0,
                      hide_after_export |-> FALSE, make_subcollections |-> sub]

SpecRelated == InitRelated /\ [][Execute]_vars

\* ------------------------------------------- clean and purge_orphans
MaxMissing == 1

\* The positions at which an operator of the panel can be invoked
Idle == {"idle", "clean_done", "purge_done", "resize_done", "raised"}

\* Whether collection c of root.children holds no object (line 946)
CollectionEmpty(c, objs, coll) == ~ \E e \in Markers \cap objs : coll[e] = c

\* target_colls of lines 997-1001 for one selected mesh, as the markers
\* linked to those collections
CleanTargets(obj, s, ch, objs, coll) ==
    IF s.make_subcollections /\ obj \in ch
    THEN {e \in Markers \cap objs : coll[e] = obj}
    ELSE {e \in Markers \cap objs : coll[e] = None}

\* to_delete of lines 994-1006 for the first n selected meshes, as a set
ToDelete(sel, n, s, ch, objs, coll) ==
    UNION {CleanTargets(sel[i], s, ch, objs, coll) : i \in 1 .. n}

\* The positions in sel_objs of the meshes whose candidates are in to_delete
\* already when the loop of line 996 comes to them
Repeats(sel, s, ch, objs, coll) ==
    {j \in 1 .. Len(sel) :
        CleanTargets(sel[j], s, ch, objs, coll)
            \cap ToDelete(sel, j - 1, s, ch, objs, coll) # {}}

\* Number of selected meshes whose candidates the loop of lines 1007-1008
\* removes: all of them, or, when the host raises at the second removal of an
\* object, those before the first repeat
Removed(sel, s, ch, objs, coll, stale) ==
    LET rp == Repeats(sel, s, ch, objs, coll)
    IN IF stale = "raise" /\ rp # {}
       THEN (CHOOSE j \in rp : \A k \in rp : j <= k) - 1
       ELSE Len(sel)

\* bpy.data.objects.remove(ob, do_unlink=True) for every ob of gone
RemoveObjects(gone) ==
    /\ objects' = objects \ gone
    /\ selected' = selected \ gone
    /\ hidden' = hidden \ gone
    /\ active' = IF active \in gone THEN None ELSE active

\* OBJECT_OT_ni_snaps_clean.execute, lines 987-1016. The second removal of an
\* object that is twice in to_delete goes through a stale reference: the host
\* raises ReferenceError there (stale = "raise") or ignores it ("read").
Clean(stale) ==
    /\ pc \in Idle
    /\ escaped' = "none"
    /\ IF ~root
       THEN /\ stale = "read"
            /\ reports' = <<[level |-> "INFO", msg |-> "No collection found"]>>
            /\ result' = "CANCELLED"
            /\ pc' = "clean_done"
            /\ UNCHANGED <<objects, selected, hidden, active, children>>
       ELSE LET sel_objs == SelMeshes
                n == Removed(sel_objs, settings, children, objects,
                             users_collection, stale)
                to_delete == ToDelete(sel_objs, n, settings, children, objects,
                                      users_collection)
                subs_to_check == IF settings.make_subcollections
                                 THEN Range(sel_objs) \cap children ELSE {}
            IN /\ stale = "raise" =>
                      Repeats(sel_objs, settings, children, objects,
                              users_collection) # {}
               /\ RemoveObjects(to_delete)
               /\ IF stale = "raise"
                  THEN /\ pc' = "raised"
                       /\ escaped' = "clean"
                       /\ reports' = <<>>
                       /\ result' = "none"
                       /\ UNCHANGED children
                  ELSE /\ children' = children \
                              {c \in subs_to_check :
                                  CollectionEmpty(c, objects \ to_delete, users_collection)}
                       /\ reports' = <<[level |-> "INFO", msg |-> "Deleted empties"]>>
                       /\ result' = "FINISHED"
                       /\ pc' = "clean_done"
    /\ UNCHANGED <<matrix_world, ni_source, users_collection, root, isdir>>
    /\ UNCHANGED <<toolVars, location, settings>>
    /\ UNCHANGED <<depth, orig_active, orig_selected, primaries, assignment, queue,
                   exported, group, loc_backup, outcome, location0, calls, rets,
                   deletes>>

\* Mutant of Orphan: only markers without a tag count
OrphanUntagged(src, objs) == src = None

\* The test of line 1034, (not src) or (src not in bpy.data.objects)
Orphan(src, objs) == src = None \/ src \notin objs

\* OBJECT_OT_ni_snaps_purge_orphans.execute, lines 1022-1047
PurgeOrphans ==
    /\ pc \in Idle
    /\ escaped' = "none"
    /\ pc' = "purge_done"
    /\ IF ~root
       THEN /\ reports' = <<[level |-> "INFO", msg |-> "Root collection not found"]>>
            /\ result' = "CANCELLED"
            /\ UNCHANGED <<objects, selected, hidden, active, children>>
       ELSE LET orphans == {e \in Markers \cap objects : Orphan(ni_source[e], objects)}
            IN /\ RemoveObjects(orphans)
               /\ children' = {c \in children :
                                  ~CollectionEmpty(c, objects \ orphans, users_collection)}
               /\ reports' = <<[level |-> "INFO", msg |-> "Purged orphan snaps"]>>
               /\ result' = "FINISHED"
    /\ UNCHANGED <<matrix_world, ni_source, users_collection, root, isdir>>
    /\ UNCHANGED <<toolVars, location, settings>>
    /\ UNCHANGED <<depth, orig_active, orig_selected, primaries, assignment, queue,
                   exported, group, loc_backup, outcome, location0, calls, rets,
                   deletes>>

\* Scenes the cleanup operators are run in: every marker was created on a
\* mesh, into that mesh's sub-collection or flat under the root, or was
\* linked under the root by hand without a tag; up to MaxMissing meshes have
\* been deleted since; any selection of the meshes that are left.
InitClean ==
    /\ InitCall("idle")
    /\ InitTools
    /\ \E site \in MarkerSites, kind \in [Markers -> MarkerKinds] :
          /\ ni_source = [e \in Markers |->
                            IF kind[e] = "untagged" THEN None ELSE site[e]]
          /\ users_collection = [e \in Markers |->
                                   IF kind[e] = "sub" THEN site[e] ELSE None]
          /\ children = {site[e] : e \in {x \in Markers : kind[x] = "sub"}}
          /\ InitLocations(Row(30), site)
    /\ root \in BOOLEAN
    /\ \E gone \in SUBSET Meshes :
          /\ Cardinality(gone) <= MaxMissing
          /\ objects = IF root THEN Objects \ gone ELSE Meshes \ gone
          /\ selected \in SUBSET (Meshes \ gone)
    /\ active = None
    /\ hidden = {}
    /\ isdir = TRUE
    /\ \E sub \in BOOLEAN :
          settings = [include_nearby_meshes |-> FALSE, proximity_padding |-> 10,
                      hide_after_export |-> FALSE, make_subcollections |-> sub]

NextClean ==
    \/ \E stale \in {"read", "raise"} : Clean(stale)
    \/ PurgeOrphans

SpecClean == InitClean /\ [][NextClean]_vars

\* ------------------------------------------------------- texture resize
\* The items of tex_size_enum (lines 266-272)
TexSizes == {264, 512, 1024, 2048, 4096}

\* Widths and heights of the images of a file
Widths == {100, 200, 264, 1000, 4096, 8192}
Heights == {1, 200, 1000, 8192}

\* int(round(n / d)) for n >= 0, d > 0: Python rounds a tie to the even
\* neighbour. (The code forms oh * (target_w / ow) in floating point; the
\* quotient is taken exactly here.)
RoundHalfEven(n, d) ==
    LET q == n \div d
        r == n % d
    IN IF 2 * r < d THEN q
       ELSE IF 2 * r > d THEN q + 1
       ELSE IF q % 2 = 0 THEN q ELSE q + 1

\* nw, nh of lines 1869-1870
NewSize(size, target_w) ==
    [w |-> target_w, h |-> Max2(1, RoundHalfEven(size.h * target_w, size.w))]

\* Whether the loop of line 1858 goes on with the image (lines 1860-1867)
ValidImage(size) == size.w > 0 /\ size.h > 0

\* _resize_texture_items, lines 1853-1972, as called by resize_textures and
\* resize_textures_all: items are the list entries passed, ok those whose
\* scale, save and reload did not raise (or whose file of the new size was
\* there already and was re-linked)
ResizeTextureItems(items, ok) ==
    /\ pc \in Idle
    /\ items # {}
    /\ ok \subseteq {i \in items : ValidImage(images[i])}
    /\ images' = [i \in Images |->
                     IF i \in ok THEN NewSize(images[i], tex_size_enum) ELSE images[i]]
    /\ saved' = [i \in Images |->
                    IF i \in ok
                    THEN LET n == NewSize(images[i], tex_size_enum)
                         IN [ow |-> images[i].w, oh |-> images[i].h,
                             nw |-> n.w, nh |-> n.h]
                    ELSE saved[i]]
    /\ reports' = <<[level |-> "INFO", msg |-> "Resized textures"]>>
    /\ result' = "FINISHED"
    /\ pc' = "resize_done"
    /\ UNCHANGED <<sceneVars, hostVars, cursorVars, nameVars, addonVars, tex_size_enum>>
    /\ UNCHANGED <<depth, orig_active, orig_selected, primaries, assignment, queue,
                   exported, group, loc_backup, outcome, location0, calls, rets,
                   escaped, deletes>>

\* A file whose images have any of the sizes, also 0 x 0 (not loaded), and
\* any target width of the enum
InitTex ==
    /\ InitCall("idle")
    /\ InitMarkers([e \in Markers |-> 1], "sub")
    /\ InitLocations(Row(30), [e \in Markers |-> 1])
    /\ objects = Objects
    /\ selected = {}
    /\ active = None
    /\ hidden = {}
    /\ root = TRUE
    /\ isdir = TRUE
    /\ settings = [include_nearby_meshes |-> FALSE, proximity_padding |-> 10,
                   hide_after_export |-> FALSE, make_subcollections |-> TRUE]
    /\ images \in [Images -> {[w |-> 0, h |-> 0]}
                              \cup {[w |-> a, h |-> b] : a \in Widths, b \in Heights}]
    /\ tex_size_enum \in TexSizes
    /\ saved = [i \in Images |-> NoSave]
    /\ cursor = Zero3
    /\ cursor_backup = Zero3
    /\ origin_op = "none"
    /\ cursor0 = Zero3
    /\ InitNames
    /\ InitModule

NextTex == \E items \in SUBSET Images, ok \in SUBSET Images : ResizeTextureItems(items, ok)

SpecTex == InitTex /\ [][NextTex]_vars

\* ------------------------------------------------------ origin operators
\* The operators of lines 1109-1235 that write the 3D cursor: the five that
\* put the origin on a point of the bounding box, world zero and to selected
BoxOps == {"bottom", "top", "center", "left", "right"}
OriginOps == BoxOps \cup {"world_zero", "to_selected"}

Mid(a, b) == (a + b) \div 2

\* world_bottom_center_from_boundbox and its four siblings (lines 440-468)
\* for a mesh whose world bounding box is a
BoxPoint(op, a) ==
    CASE op = "bottom" -> <<Mid(a.min[1], a.max[1]), Mid(a.min[2], a.max[2]), a.min[3]>>
      [] op = "top" -> <<Mid(a.min[1], a.max[1]), Mid(a.min[2], a.max[2]), a.max[3]>>
      [] op = "left" -> <<a.min[1], Mid(a.min[2], a.max[2]), Mid(a.min[3], a.max[3])>>
      [] op = "right" -> <<a.max[1], Mid(a.min[2], a.max[2]), Mid(a.min[3], a.max[3])>>
      [] OTHER -> <<Mid(a.min[1], a.max[1]), Mid(a.min[2], a.max[2]),
                    Mid(a.min[3], a.max[3])>>

\* matrix_world @ bound_box of a mesh. origin_set moves the origin and leaves
\* the geometry where it is in the world, so the corners are those of the
\* initial row whatever matrix_world has become.
WorldCorners(m) == world_aabb(Row(30)[m])

\* Mutant of CursorRestore: the finally block leaves the cursor alone
CursorNotRestored(cur, saved_loc) == cur

\* The finally block of preserve_cursor (lines 703-704)
CursorRestore(cur, saved_loc) == saved_loc

\* What bpy.ops.view3d.snap_cursor_to_selected can do: raise, or return with
\* the cursor on the selection (unchanged when nothing is selected)
SnapOutcomes == {"snapped", "raise"}

\* execute of an origin operator up to its first host call: preserve_cursor
\* is entered (lines 698-702) and, for world zero and to selected, the
\* cursor is written (line 1171) or snapped (lines 1214-1227)
OriginBegin(op, snap, at) ==
    /\ pc = "idle"
    /\ op \in OriginOps
    /\ origin_op' = op
    /\ cursor_backup' = cursor
    /\ cursor0' = cursor
    /\ UNCHANGED <<sceneVars, texVars, nameVars, addonVars, location, objects, selected, active,
                   hidden, settings>>
    /\ orig_selected' = {o \in selected : ObjType(o) = "MESH"}
    /\ UNCHANGED <<depth, orig_active, primaries, assignment,
                   exported, group, loc_backup, outcome, location0, calls, rets,
                   deletes>>
    /\ CASE op \in BoxOps ->
              /\ snap = "snapped" /\ at = None
              /\ queue' = SelMeshes
              /\ pc' = "origin"
              /\ UNCHANGED <<cursor, result, reports, escaped>>
         [] op = "world_zero" ->
              /\ snap = "snapped" /\ at = None
              /\ cursor' = Zero3
              /\ pc' = "origin"
              /\ UNCHANGED <<queue, result, reports, escaped>>
         [] op = "to_selected" ->
              /\ UNCHANGED queue
              /\ IF snap = "raise"
                 THEN /\ at = None
                      /\ reports' = <<[level |-> "WARNING",
                                       msg |-> "Could not snap cursor to selected"]>>
                      /\ result' = "CANCELLED"
                      /\ pc' = "origin_exit"
                      /\ UNCHANGED <<cursor, escaped>>
                 ELSE IF selected = {}
                 THEN /\ at = None
                      /\ reports' = <<[level |-> "WARNING", msg |-> "No objects selected"]>>
                      /\ result' = "CANCELLED"
                      /\ pc' = "origin_exit"
                      /\ UNCHANGED <<cursor, escaped>>
                 ELSE /\ at \in selected
                      /\ cursor' = location[at]
                      /\ pc' = "origin"
                      /\ UNCHANGED <<result, reports, escaped>>

\* origin_set(type='ORIGIN_CURSOR') on the objects of sel: their origin goes
\* to the cursor location cur
OriginSet(sel, cur) ==
    /\ matrix_world' = [m \in Meshes |-> IF m \in sel THEN cur ELSE matrix_world[m]]
    /\ location' = [o \in Objects |-> IF o \in sel \cap Meshes THEN cur ELSE location[o]]

\* One host call bpy.ops.object.origin_set with what precedes it: for a box
\* operator one round of the loop of lines 1117-1121 (selection, active
\* object, cursor on the point of the box), or, after the last round, line
\* 1122 and the return; for world zero and to selected the single call of line 1172 or
\* 1228. raises: the host call raises.
OriginStep(raises) ==
    /\ pc = "origin"
    /\ UNCHANGED <<ni_source, users_collection, children, root, isdir>>
    /\ UNCHANGED <<texVars, nameVars, addonVars, cursor_backup, origin_op, cursor0, objects, hidden,
                   settings>>
    /\ UNCHANGED <<depth, orig_active, orig_selected, primaries, assignment,
                   exported, group, loc_backup, outcome, location0, calls, rets,
                   deletes, reports>>
    /\ IF origin_op \in BoxOps
       THEN IF queue = <<>>
            THEN /\ ~raises
                 /\ selected' = selected \cup orig_selected
                 /\ result' = "FINISHED"
                 /\ pc' = "origin_exit"
                 /\ UNCHANGED <<cursor, matrix_world, location, active, queue, escaped>>
            ELSE LET obj == Head(queue)
                     point == BoxPoint(origin_op, WorldCorners(obj))
                 IN /\ cursor' = point
                    /\ active' = obj
                    /\ queue' = Tail(queue)
                    /\ selected' = {obj}
                    /\ IF raises
                       THEN /\ escaped' = "origin_set"
                            /\ pc' = "origin_exit"
                            /\ UNCHANGED <<matrix_world, location, result>>
                       ELSE /\ OriginSet({obj}, point)
                            /\ UNCHANGED <<escaped, result, pc>>
       ELSE /\ UNCHANGED <<cursor, selected, active, queue>>
            /\ pc' = "origin_exit"
            /\ IF raises
               THEN /\ escaped' = "origin_set"
                    /\ UNCHANGED <<matrix_world, location, result>>
               ELSE /\ OriginSet(selected, cursor)
                    /\ result' = "FINISHED"
                    /\ UNCHANGED escaped

\* The with block is left, by its end, by a return or by an exception: the
\* finally block of preserve_cursor runs (lines 703-704), then execute
\* returns or the exception goes on to the host
OriginExit ==
    /\ pc = "origin_exit"
    /\ cursor' = CursorRestore(cursor, cursor_backup)
    /\ pc' = IF escaped = "none" THEN "origin_done" ELSE "raised"
    /\ reports' = IF origin_op = "to_selected" /\ result = "FINISHED"
                  THEN <<[level |-> "INFO", msg |-> "Origin set to selection"]>>
                  ELSE reports
    /\ UNCHANGED <<sceneVars, hostVars, texVars, nameVars, addonVars, cursor_backup, origin_op,
                   cursor0>>
    /\ UNCHANGED <<depth, result, orig_active, orig_selected, primaries, assignment,
                   queue, exported, group, loc_backup, outcome, location0, calls,
                   rets, escaped, deletes>>

\* Where the user has left the 3D cursor
CursorPlaces == {Zero3, <<5, 5, 5>>, <<30, 0, 10>>}

\* Any selection of the meshes of the row, the cursor at any of its places
InitCursor ==
    /\ InitCall("idle")
    /\ InitMarkers([e \in Markers |-> 1], "sub")
    /\ InitLocations(Row(30), [e \in Markers |-> 1])
    /\ objects = Objects
    /\ selected \in SUBSET Meshes
    /\ active = None
    /\ hidden = {}
    /\ root = TRUE
    /\ isdir = TRUE
    /\ settings = [include_nearby_meshes |-> FALSE, proximity_padding |-> 10,
                   hide_after_export |-> FALSE, make_subcollections |-> TRUE]
    /\ images = [i \in Images |-> [w |-> 1024, h |-> 1024]]
    /\ tex_size_enum = 1024
    /\ saved = [i \in Images |-> NoSave]
    /\ cursor \in CursorPlaces
    /\ cursor_backup = Zero3
    /\ origin_op = "none"
    /\ cursor0 = cursor
    /\ InitNames
    /\ InitModule

NextCursor ==
    \/ \E op \in OriginOps, snap \in SnapOutcomes, at \in Objects \cup {None} :
          OriginBegin(op, snap, at)
    \/ \E raises \in BOOLEAN : OriginStep(raises)
    \/ OriginExit

SpecCursor == InitCursor /\ [][NextCursor]_vars

\* ------------------------------------- registration and the watchdog
\* Number of entries of a handler list that are named h
Count(list, h) == Cardinality({i \in 1 .. Len(list) : list[i] = h})

RECURSIVE KeepOthers(_, _, _)
KeepOthers(list, h, n) ==
    IF n = 0 THEN <<>>
    ELSE IF list[n] = h THEN KeepOthers(list, h, n - 1)
         ELSE Append(KeepOthers(list, h, n - 1), list[n])

\* Lines 2560-2562, 2626-2628 and 2791-2793: every handler whose __name__
\* is h is removed from the list
RemoveNamed(list, h) == KeepOthers(list, h, Len(list))

\* list.remove(h) of line 2665: the first entry equal to h is removed
RemoveFirst(list, h) ==
    IF Count(list, h) = 0 THEN list
    ELSE LET k == CHOOSE i \in 1 .. Len(list) :
                      list[i] = h /\ \A j \in 1 .. i - 1 : list[j] # h
         IN SubSeq(list, 1, k - 1) \o SubSeq(list, k + 1, Len(list))

\* Lines 2543-2544 and 2593-2594: the handler is appended when it is not
\* in the list
AppendOnce(list, h) == IF Count(list, h) = 0 THEN Append(list, h) ELSE list

\* Lines 2571-2586 and 2602-2616: clear_by_owner, then one subscription to
\* LayerObjects.active and one to LayerObjects.selected
Subscribed == <<"active", "selected">>

\* Mutant of ShouldStart: a timer is registered whatever the flag says
ShouldStartAlways(running) == TRUE

\* Line 2748: if not _ns_watchdog_running
ShouldStart(running) == ~running

\* _ns_start_watchdog, lines 2744-2753, as the values it leaves in timers,
\* _ns_watchdog_running and _ns_watchdog_stop; tfail: bpy.app.timers.register
\* raises
StartWatchdog(tfail) ==
    /\ ns_watchdog_stop' = FALSE
    /\ IF ShouldStart(ns_watchdog_running) /\ ~tfail
       THEN timers' = timers + 1 /\ ns_watchdog_running' = TRUE
       ELSE UNCHANGED <<timers, ns_watchdog_running>>

\* What the actions of this section leave alone
AddonFrame ==
    UNCHANGED <<sceneVars, hostVars, opVars, texVars, cursorVars, nameVars>>

\* register(), lines 2765-2771, with the register() it wraps, lines
\* 2527-2631. fault: register_class raises (the classes are registered
\* already), which the wrapper catches before any handler is installed.
Register(fault, tfail) ==
    /\ pc = "idle"
    /\ IF fault
       THEN UNCHANGED handlerVars
       ELSE /\ depsgraph_update_post' =
                   AppendOnce(AppendOnce(depsgraph_update_post, "_ns_depsgraph_update"),
                              "_ns_depsgraph_update")
            /\ load_post' =
                   Append(RemoveNamed(Append(RemoveNamed(load_post, "_ns_on_load"),
                                             "_ns_on_load"),
                                      "_ns_on_load"),
                          "_ns_on_load")
            /\ msgbus' = Subscribed
    /\ StartWatchdog(tfail)
    /\ addon' = "registered"
    /\ UNCHANGED <<ns_watchdog_last_sig, sig>>
    /\ AddonFrame

\* unregister(), lines 2778-2784, with the unregister() it wraps: the one
\* of lines 2659-2683, which replaces the one of lines 2633-2658 when the
\* module is executed. The host calls it for an add-on it has registered.
Unregister ==
    /\ pc = "idle"
    /\ addon = "registered"
    /\ ns_watchdog_stop' = TRUE
    /\ depsgraph_update_post' = RemoveFirst(depsgraph_update_post, "_ns_depsgraph_update")
    /\ addon' = "unregistered"
    /\ UNCHANGED <<load_post, msgbus, timers, ns_watchdog_running,
                   ns_watchdog_last_sig, sig>>
    /\ AddonFrame

\* The host selects other objects: the signature of the selection changes
Signatures == {"", "a", "a|b"}

SelectionChange(new) ==
    /\ pc = "idle"
    /\ new # sig
    /\ sig' = new
    /\ UNCHANGED <<handlerVars, watchdogVars, addon>>
    /\ AddonFrame

\* _ns_selection_watchdog, lines 2722-2742, called by the host for one
\* registered timer. Returning None unregisters the timer; scene: whether
\* bpy.context.scene is there.
Tick(scene) ==
    /\ pc = "idle"
    /\ timers > 0
    /\ IF ns_watchdog_stop
       THEN /\ ns_watchdog_running' = FALSE
            /\ timers' = timers - 1
            /\ UNCHANGED ns_watchdog_last_sig
       ELSE /\ ns_watchdog_last_sig' = IF scene THEN sig ELSE ns_watchdog_last_sig
            /\ UNCHANGED <<timers, ns_watchdog_running>>
    /\ UNCHANGED <<handlerVars, ns_watchdog_stop, sig, addon>>
    /\ AddonFrame

\* The host loads a file. No handler of the module is marked persistent, so
\* the host may have freed them all when it runs load_post (freed = TRUE);
\* the subscriptions of the message bus do not outlive the file. The timer
\* is registered with persistent=True (line 2750) and stays. A handler the
\* host still has is called: _ns_on_load (lines 2599-2621) subscribes
\* again, _ni_snaps__on_load (lines 2789-2790) starts the watchdog.
FileLoad(freed) ==
    /\ pc = "idle"
    /\ IF freed
       THEN /\ depsgraph_update_post' = <<>>
            /\ load_post' = <<>>
            /\ msgbus' = <<>>
            /\ UNCHANGED <<timers, ns_watchdog_running, ns_watchdog_stop>>
       ELSE /\ msgbus' = IF Count(load_post, "_ns_on_load") > 0 THEN Subscribed ELSE <<>>
            /\ IF Count(load_post, "_ni_snaps__on_load") > 0
               THEN StartWatchdog(FALSE)
               ELSE UNCHANGED <<timers, ns_watchdog_running, ns_watchdog_stop>>
            /\ UNCHANGED <<depsgraph_update_post, load_post>>
    /\ sig' = ""
    /\ UNCHANGED <<ns_watchdog_last_sig, addon>>
    /\ AddonFrame

\* The add-on's module has been imported, no operator is running
InitAddon ==
    /\ InitCall("idle")
    /\ InitTools
    /\ InitMarkers([e \in Markers |-> 1], "sub")
    /\ InitLocations(Row(30), [e \in Markers |-> 1])
    /\ objects = Objects
    /\ selected = {}
    /\ active = None
    /\ hidden = {}
    /\ root = TRUE
    /\ isdir = TRUE
    /\ settings = [include_nearby_meshes |-> FALSE, proximity_padding |-> 10,
                   hide_after_export |-> FALSE, make_subcollections |-> TRUE]

NextAddon ==
    \/ \E fault \in BOOLEAN, tfail \in BOOLEAN : Register(fault, tfail)
    \/ Unregister
    \/ \E new \in Signatures : SelectionChange(new)
    \/ \E scene \in BOOLEAN : Tick(scene)
    \/ \E freed \in BOOLEAN : FileLoad(freed)

SpecAddon == InitAddon /\ [][NextAddon]_vars

\* The host calls a registered timer again and again (bpy.app.timers)
SpecAddonLive == SpecAddon /\ WF_vars(\E scene \in BOOLEAN : Tick(scene))

\* ------------------------------------------------------------------ claims
Last(q) == q[Len(q)]

\* The running or last _export_group call has returned to execute's loop
GroupReturned == pc \in {"begin", "finish", "done"} /\ rets # <<>>

\* Every object of the group that still exists is where it was on entry
GroupRestored ==
    \A o \in GroupSet(group) \cap objects : location[o] = location0[o]

\* C1: whenever _export_group has returned, after an exporter call that
\* returned or raised, every object of {primary} + markers + extras that
\* still exists has exactly the location it had when the call began.
C1_TranslationNeutral == GroupReturned => GroupRestored

\* A call has returned after a raising exporter, for a primary away from the
\* origin with a marker, so the group was moved and put back
C1_Witness ==
    /\ GroupReturned
    /\ ~Last(rets).ok
    /\ group.snaps # {}
    /\ location0[group.main] # Zero3
    /\ \A o \in GroupSet(group) : Last(calls).location[o] # location0[o]

\* C2: on every exit path of _export_group, also when a host call between
\* the offset and the exporter call raises, all group members are back at
\* their pre-call locations when control leaves the function.
C2_RestoredOnEveryExit ==
    (GroupReturned \/ (pc = "raised" /\ escaped \in HostSteps \cup {"exporter"}))
        => GroupRestored

\* C3: an exception of the exporter never leaves _export_group: the call
\* returns False for that group and nothing is counted, a call whose
\* exporter returned {'FINISHED'} returns True and is counted, and when
\* execute returns FINISHED the exporter has been invoked for every group of
\* the batch, in order.
C3_Step ==
    /\ (pc = "end" /\ pc' = "raised") => escaped' = "restore"
    /\ (pc = "end" /\ outcome = "RAISE" /\ pc' # "raised") =>
          /\ pc' \in {"begin", "finish"}
          /\ rets' = Append(rets, [main |-> group.main, ok |-> FALSE])
          /\ exported' = exported
          /\ queue' = queue
    /\ (pc = "end" /\ outcome = "FINISHED" /\ pc' # "raised") =>
          /\ rets' = Append(rets, [main |-> group.main, ok |-> TRUE])
          /\ exported' = exported + 1

Batch == IF primaries = <<>> THEN SeqOf(orig_selected \cap Meshes) ELSE primaries

C3_AllInvoked ==
    (pc = "done" /\ result = "FINISHED") =>
        /\ Len(calls) = Len(Batch)
        /\ Len(rets) = Len(Batch)
        /\ \A i \in 1 .. Len(Batch) : calls[i].main = Batch[i] /\ rets[i].main = Batch[i]

C3_ExporterFailureContained ==
    /\ [][C3_Step]_vars
    /\ [](escaped # "exporter")
    /\ []C3_AllInvoked

\* A finished batch in which one group failed and a later group was exported
C3_Witness ==
    /\ pc = "done"
    /\ result = "FINISHED"
    /\ \E i, j \in 1 .. Len(rets) : i < j /\ ~rets[i].ok /\ rets[j].ok
    /\ exported >= 1
    /\ \E k \in 1 .. Len(reports) : reports[k].level = "WARNING"

\* C4: when the exporter returns a non-success result without raising,
\* _export_group returns False, the group is not counted and its objects are
\* not hidden.
C4_Step ==
    (pc = "end" /\ outcome = "CANCELLED" /\ pc' # "raised") =>
        /\ ~Last(rets').ok
        /\ exported' = exported
        /\ hidden' = hidden

C4_CancelledIsFailure == [][C4_Step]_vars

\* C9: every group adds 1 to the exported count when its exporter call
\* completed successfully and 0 otherwise, and the count execute reports is
\* that sum.
C9_Step ==
    /\ (pc = "end" /\ pc' # "raised") =>
          exported' = exported + (IF outcome = "FINISHED" THEN 1 ELSE 0)
    /\ (pc = "execute" /\ pc' = "begin") => exported' = 0

C9_CountIsSuccessfulGroups == [][C9_Step]_vars

\* C10: with an output directory that is not a directory, execute reports an
\* error and returns CANCELLED at once: the directory is not created, the
\* exporter is not invoked, and locations, selection, hidden flags and the
\* active object stay as they were.
C10_Step ==
    (pc = "execute" /\ ~isdir) =>
        /\ pc' = "done"
        /\ result' = "CANCELLED"
        /\ reports' = <<[level |-> "ERROR", msg |-> "Output directory is invalid"]>>
        /\ calls' = <<>>
        /\ UNCHANGED <<isdir, location, selected, hidden, active, objects>>

C10_InvalidDirCancels ==
    /\ [][C10_Step]_vars
    /\ [](~isdir => (calls = <<>> /\ pc \in {"execute", "done"}))

\* The call has returned for an invalid directory and a selection of meshes
C10_Witness ==
    /\ pc = "done"
    /\ ~isdir
    /\ result = "CANCELLED"
    /\ selected \cap Meshes # {}

\* execute has grouped the candidates of a batch (lines 1491-1509)
Grouped == pc = "begin" /\ primaries # <<>>

PrimarySet == Range(primaries)

\* The candidates of the batch: the visible meshes that are not primaries
Candidates == {o \in Meshes \cap objects : o \notin hidden /\ o \notin PrimarySet}

Assigned == UNION {assignment[p] : p \in Meshes}

\* Squared gap between the world AABB of candidate e and the world AABB of
\* x inflated by pad on every side
GapSq(x, e, pad) ==
    LET a == [min |-> <<matrix_world[x][1] - 10 - pad, matrix_world[x][2] - 10 - pad,
                        matrix_world[x][3] - 10 - pad>>,
              max |-> <<matrix_world[x][1] + 10 + pad, matrix_world[x][2] + 10 + pad,
                        matrix_world[x][3] + 10 + pad>>]
        b == [min |-> <<matrix_world[e][1] - 10, matrix_world[e][2] - 10,
                        matrix_world[e][3] - 10>>,
              max |-> <<matrix_world[e][1] + 10, matrix_world[e][2] + 10,
                        matrix_world[e][3] + 10>>]
        g(i) == Max3(0, b.min[i] - a.max[i], a.min[i] - b.max[i])
    IN g(1) * g(1) + g(2) * g(2) + g(3) * g(3)

Pad == settings.proximity_padding

\* C5: after the grouping the extras sets of distinct primaries are pairwise
\* disjoint, and no primary is in any extras set.
C5_ExtrasDisjoint ==
    Grouped =>
        /\ \A p, q \in Meshes : p # q => assignment[p] \cap assignment[q] = {}
        /\ Assigned \cap PrimarySet = {}

\* A candidate within padding of two primaries, equally far from both, is in
\* the extras of one of them
C5_Witness ==
    /\ Grouped
    /\ \E p, q \in PrimarySet, e \in Candidates :
          /\ p # q
          /\ e \in assignment[p]
          /\ GapSq(p, e, Pad) = GapSq(q, e, Pad)
          /\ GapSq(p, e, Pad) <= Pad * Pad

\* C6: a candidate assigned to P has d(P) <= padding and no primary Q has
\* d(Q) < d(P), d being the gap to the AABB inflated by padding; a candidate
\* with d(Q) > padding for every primary Q is assigned to none.
C6_NearestWithinPadding ==
    Grouped =>
        /\ \A p \in PrimarySet : \A e \in assignment[p] :
              /\ GapSq(p, e, Pad) <= Pad * Pad
              /\ \A q \in PrimarySet : GapSq(q, e, Pad) >= GapSq(p, e, Pad)
        /\ \A e \in Candidates :
              (\A q \in PrimarySet : GapSq(q, e, Pad) > Pad * Pad) => e \notin Assigned

\* Two primaries are within padding of a candidate, the later one strictly
\* closer, and the candidate went to the later one
C6_Witness ==
    /\ Grouped
    /\ \E p, q \in PrimarySet, e \in Candidates :
          /\ p < q
          /\ GapSq(p, e, Pad) <= Pad * Pad
          /\ GapSq(q, e, Pad) < GapSq(p, e, Pad)
          /\ e \in assignment[q]

\* C7: a candidate is in a primary's group only if the gap between its world
\* AABB and the primary's own, un-inflated world AABB is at most padding; a
\* candidate 1.0 away is assigned for padding 1.0 and not for padding 0.9.
C7_GapWithinPadding ==
    Grouped =>
        /\ \A p \in PrimarySet : \A e \in assignment[p] : GapSq(p, e, 0) <= Pad * Pad
        /\ \A p \in PrimarySet : \A e \in Candidates :
              (PrimarySet = {p} /\ matrix_world[p] = Zero3
               /\ matrix_world[e] = <<30, 0, 0>>) =>
                  /\ Pad = 10 => e \in assignment[p]
                  /\ Pad = 9 => e \notin Assigned

\* C8: with at least one primary, a candidate whose world AABB overlaps or
\* touches the world AABB of some primary is assigned to some primary.
C8_OverlapAssigned ==
    Grouped =>
        \A e \in Candidates :
            (\E p \in PrimarySet : GapSq(p, e, 0) = 0) => e \in Assigned

\* Padding 0 and a candidate that touches a primary and is assigned
C8_Witness ==
    /\ Grouped
    /\ Pad = 0
    /\ \E p \in PrimarySet, e \in Candidates :
          /\ GapSq(p, e, 0) = 0
          /\ matrix_world[e][1] - matrix_world[p][1] = 20
          /\ e \in Assigned

\* C11: during a batch export an object's hidden flag is set only if
\* hide_after_export is on and the object is the primary, a marker or an
\* extra of a group whose export succeeded (the exporter returned
\* {'FINISHED'}); a failed group hides nothing, and hiding does not change
\* the value the call returns for the group.
C11_Step ==
    /\ (hidden' \ hidden) \subseteq
          (IF pc = "end" /\ settings.hide_after_export /\ outcome = "FINISHED"
           THEN GroupSet(group) ELSE {})
    /\ (hidden' \ hidden # {}) =>
          /\ rets' = Append(rets, [main |-> group.main, ok |-> TRUE])
          /\ reports' = reports

C11_HideOnlyOnSuccess == [][C11_Step]_vars

\* C12: a batch export call leaves include_nearby_meshes, proximity_padding
\* and hide_after_export as they were before the call, for every selection,
\* also one in which no selected mesh has markers.
C12_SettingsUnchanged == [][settings' = settings]_vars

\* C13: in proximity batch export every mesh that rides along as an extra of
\* a primary was selected when the operator was invoked; a mesh that was not
\* selected is in no export group.
C13_ExtrasAreSelected ==
    Grouped =>
        /\ Assigned \subseteq orig_selected
        /\ (PrimarySet \cup Assigned) \cap Meshes \subseteq orig_selected

\* C14: in proximity mode with at least one primary the exporter is invoked
\* exactly once per primary, in order, with that primary as reference object,
\* that primary's markers and exactly the extras the grouping assigned to it;
\* it is never invoked with a non-primary as reference object.
C14_Step ==
    /\ (primaries # <<>> /\ pc = "begin" /\ pc' = "exporter") =>
          /\ group'.main = Head(queue)
          /\ group'.snaps = Related(Head(queue))
          /\ group'.extras = assignment[Head(queue)]
    /\ (primaries # <<>> /\ pc = "exporter") =>
          /\ Len(calls') = Len(calls) + 1
          /\ Last(calls').main = group.main
          /\ Last(calls').snaps = group.snaps
          /\ Last(calls').extras = group.extras
    /\ (primaries # <<>> /\ pc # "exporter") => calls' = calls

C14_Calls ==
    primaries # <<>> =>
        /\ Len(calls) <= Len(primaries)
        /\ \A i \in 1 .. Len(calls) :
              /\ calls[i].main = primaries[i]
              /\ calls[i].extras = assignment[primaries[i]]
        /\ \A i, j \in 1 .. Len(calls) : i # j => calls[i].main # calls[j].main
        /\ (pc = "done" /\ result = "FINISHED") => Len(calls) = Len(primaries)

C14_OncePerPrimary == [][C14_Step]_vars /\ []C14_Calls

\* A finished proximity batch of two primaries, the second exported with an
\* extra and a marker
C14_Witness ==
    /\ pc = "done"
    /\ result = "FINISHED"
    /\ Len(primaries) = 2
    /\ Len(calls) = 2
    /\ calls[2].extras # {}
    /\ calls[2].snaps # {}

\* C15: the clean operator deletes only markers related to the selected
\* meshes: every marker whose source is an existing, unselected mesh still
\* exists after the operator, with sub-collections per object and in flat
\* mode, also when a selected mesh has no sub-collection of its own.
C15_Step ==
    (pc' = "clean_done" \/ (pc' = "raised" /\ escaped' = "clean")) =>
        \A e \in Markers \cap objects :
            (ni_source[e] \in Meshes \cap objects /\ ni_source[e] \notin selected)
                => e \in objects'

C15_CleanKeepsUnselected == [][C15_Step]_vars

\* C16: after purge_orphans a marker under the root collection tree has been
\* removed if and only if its ni_source tag is missing or names no existing
\* object; every marker whose source exists is kept, no other object is
\* removed, and the root collection is not removed.
C16_Step ==
    (pc' = "purge_done" /\ root) =>
        /\ \A e \in Markers \cap objects :
              e \notin objects' <=> (ni_source[e] = None \/ ni_source[e] \notin objects)
        /\ objects' \subseteq objects
        /\ Meshes \cap objects \subseteq objects'
        /\ root'
        /\ result' = "FINISHED"

C16_PurgeRemovesOrphansOnly == [][C16_Step]_vars

\* purge_orphans has removed a marker whose source mesh was deleted and its
\* emptied sub-collection, and has kept a marker whose source exists
C16_Witness ==
    /\ pc = "purge_done"
    /\ result = "FINISHED"
    /\ \E e \in Markers \ objects :
          /\ ni_source[e] \in Meshes \ objects
          /\ users_collection[e] = ni_source[e]
          /\ users_collection[e] \notin children
    /\ \E e \in Markers \cap objects : ni_source[e] \in objects

\* C17: texture resize never upscales: for every image of width ow and
\* height oh and every target width of the enum, the width and the height
\* the image is saved with are not larger than ow and oh; an image whose
\* width is at most the target width is not enlarged.
C17_NeverUpscales ==
    \A i \in Images :
        saved[i] # NoSave =>
            /\ saved[i].nw <= saved[i].ow
            /\ saved[i].nh <= saved[i].oh
            /\ saved[i].ow <= tex_size_enum =>
                  (saved[i].nw = saved[i].ow /\ saved[i].nh = saved[i].oh)

\* C18: if an object of the export group no longer exists when the exporter
\* call ends, restoration skips it, every other group member gets its
\* pre-call location back, and _export_group does not raise.
C18_Step ==
    (pc = "end" /\ ~(GroupSet(group) \subseteq objects)) =>
        /\ pc' # "raised"
        /\ \A o \in GroupSet(group) \cap objects : location'[o] = location0[o]

C18_DeletedObjectSkipped == [][C18_Step]_vars

\* C19: for every scene and every settings value, each marker is returned by
\* get_related_empties_for_object for at most one mesh; no marker is
\* attributed to two meshes, so none is a dependent of two primaries.
C19_MarkerOfOneMesh ==
    /\ \A e \in Markers \cap objects :
          Cardinality({m \in Meshes \cap objects : e \in Related(m)}) <= 1
    /\ \A e \in Markers :
          Cardinality({m \in Range(primaries) : e \in Related(m)}) <= 1

\* C20: each origin operator that moves the 3D cursor (bottom, top, center,
\* left, right, world zero, to selected) leaves the cursor location equal to
\* its value before the call on every exit path: FINISHED, CANCELLED
\* (nothing selected, cursor snap failed) and an exception raised by the
\* host's origin_set call.
C20_CursorPreserved ==
    (origin_op \in OriginOps /\ pc \in {"origin_done", "raised"}) =>
        /\ cursor = cursor0
        /\ (pc = "origin_done") <=> (result \in {"FINISHED", "CANCELLED"})
        /\ (pc = "raised") <=> (escaped = "origin_set")

\* A box operator has left by an exception of origin_set in its second round,
\* after the first round had moved the cursor and an origin, and the cursor
\* is back at a place that is none of the points the operator put it on
C20_Witness ==
    /\ pc = "raised"
    /\ escaped = "origin_set"
    /\ origin_op \in BoxOps
    /\ \E m \in Meshes : matrix_world[m] # Row(30)[m]
    /\ cursor = <<5, 5, 5>>
    /\ cursor0 = <<5, 5, 5>>

\* Position of primary x in the primaries list
PrimaryIndex(x) == CHOOSE i \in 1 .. Len(primaries) : primaries[i] = x

\* C21: when two or more primaries have the same minimal eligible distance
\* to a candidate, the candidate goes to the one that comes first in the
\* primaries list; a later primary replaces the best so far only when its
\* distance is strictly smaller.
C21_TieKeepsFirst ==
    Grouped =>
        \A p \in PrimarySet : \A e \in assignment[p] : \A q \in PrimarySet :
            /\ GapSq(q, e, Pad) = GapSq(p, e, Pad) => PrimaryIndex(p) <= PrimaryIndex(q)
            /\ PrimaryIndex(q) > PrimaryIndex(p) => GapSq(q, e, Pad) >= GapSq(p, e, Pad)
            /\ PrimaryIndex(q) < PrimaryIndex(p) => GapSq(q, e, Pad) > GapSq(p, e, Pad)

\* Two primaries at the same eligible distance from a candidate that lies
\* apart from both, and the candidate is with the first of them
C21_Witness ==
    /\ Grouped
    /\ \E p, q \in PrimarySet, e \in Candidates :
          /\ PrimaryIndex(p) < PrimaryIndex(q)
          /\ GapSq(p, e, Pad) = GapSq(q, e, Pad)
          /\ GapSq(p, e, Pad) <= Pad * Pad
          /\ GapSq(p, e, 0) > 0
          /\ e \in assignment[p]
          /\ e \notin assignment[q]

\* C22: when the exporter is invoked the primary's location is the zero
\* vector, and every marker and extra of the group is at its location
\* before the call minus the primary's location before the call, so the
\* offsets between the members of the group are the ones before the call.
C22_OffsetAtExport ==
    /\ \A i \in 1 .. Len(calls) : calls[i].location[calls[i].main] = Zero3
    /\ pc = "end" =>
          LET c == Last(calls)
              members == {c.main} \cup c.snaps \cup c.extras
          IN /\ \A o \in members :
                   c.location[o] = VAdd(location0[o], VNeg(location0[c.main]))
             /\ \A a, b \in members :
                   VAdd(c.location[a], VNeg(c.location[b])) =
                       VAdd(location0[a], VNeg(location0[b]))

\* The exporter has been invoked for a primary that was away from the
\* origin, with a marker and an extra in its group
C22_Witness ==
    /\ pc = "end"
    /\ location0[Last(calls).main] # Zero3
    /\ Last(calls).snaps # {}
    /\ Last(calls).extras # {}

\* C23: when the exporter is invoked the selected objects are exactly the
\* primary, its markers and its extras, and the active object is the
\* primary; nothing that was selected before is still selected.
C23_SelectionAtExport ==
    \A i \in 1 .. Len(calls) :
        /\ calls[i].selected = {calls[i].main} \cup calls[i].snaps \cup calls[i].extras
        /\ calls[i].active = calls[i].main

\* The primaries whose group has been exported and counted
Counted == {rets[i].main : i \in {k \in 1 .. Len(rets) : rets[k].ok}}

\* C24: two primaries of one batch whose names are the same once the
\* marker is stripped ('Foo' and 'Foo__SRC') are exported to the same file
\* path: the path is not made unique and neither export is skipped, so the
\* exporter is invoked for the later one on the path of the earlier one,
\* and each of them is counted in the exported total.
C24_SamePathBothCounted ==
    /\ \A i, j \in 1 .. Len(calls) :
          strip_marker(name[calls[i].main], template_marker) =
              strip_marker(name[calls[j].main], template_marker)
          => calls[i].path = calls[j].path
    /\ \A i, j \in 1 .. Len(calls) : i # j => calls[i].main # calls[j].main
    /\ exported = Cardinality({k \in 1 .. Len(rets) : rets[k].ok})
    /\ pc = "done" /\ result = "FINISHED" =>
          /\ Len(calls) = Len(IF primaries = <<>> THEN SeqOf(orig_selected \cap Meshes)
                                                  ELSE primaries)
          /\ exported = Cardinality(Counted)

\* A finished batch in which 'Foo' and then 'Foo__SRC' were exported to one
\* path, and both are in the count
C24_Witness ==
    /\ pc = "done"
    /\ result = "FINISHED"
    /\ template_marker = "__SRC"
    /\ \E i, j \in 1 .. Len(calls) :
          /\ i < j
          /\ name[calls[i].main] = <<"Foo">>
          /\ name[calls[j].main] = <<"Foo", "__SRC">>
          /\ calls[i].path = calls[j].path
          /\ calls[i].path = <<"Foo", ".glb">>
          /\ {calls[i].main, calls[j].main} \subseteq Counted
          /\ exported >= 2

\* C25: whatever the order of register(), unregister(), file loads and
\* timer ticks, at most one watchdog timer is registered with the host, and
\* _ns_watchdog_running is True exactly when one is registered.
C25_OneWatchdog ==
    /\ timers <= 1
    /\ ns_watchdog_running <=> timers > 0

\* The add-on is registered and its watchdog runs: one timer, the flag
\* set, not asked to stop, and it has seen a selection with two images
C25_Witness ==
    /\ timers = 1
    /\ ns_watchdog_running
    /\ ~ns_watchdog_stop
    /\ addon = "registered"
    /\ Count(load_post, "_ns_on_load") = 1
    /\ ns_watchdog_last_sig = "a|b"

\* unregister() has run and register() has not run since
Unregistered == addon = "unregistered"

C27_NoCallbacksLeft ==
    /\ Unregistered =>
          /\ Count(depsgraph_update_post, "_ns_depsgraph_update") = 0
          /\ Count(load_post, "_ns_on_load") = 0
          /\ msgbus = <<>>
    /\ Count(depsgraph_update_post, "_ns_depsgraph_update") <= 1
    /\ Count(load_post, "_ns_on_load") <= 1
    /\ Count(msgbus, "active") <= 1
    /\ Count(msgbus, "selected") <= 1

\* C28: after a batch export that returns FINISHED with hide_after_export
\* off and no object deleted meanwhile, the selected objects and the active
\* object are the ones from before the call, also when there was no active
\* object before the call and when some groups failed to export.
C28_SelectionRestored ==
    pc = "done" /\ result = "FINISHED" /\ ~settings.hide_after_export /\ deletes = 0
    => selected = orig_selected /\ active = orig_active

\* C29: every batch export call terminates, and when it returns every
\* restore has been completed; the fallback for a selection without
\* primaries re-enters execute at most once and the re-entered call takes
\* the per-object path; on each path the exporter is invoked at most as
\* often as there are selected meshes.
C29_Terminates ==
    /\ <>(pc \in {"done", "raised"})
    /\ [](depth <= 1)
    /\ [][depth = 1 /\ pc = "execute" =>
              ~settings.include_nearby_meshes /\ pc' = "begin" /\ primaries' = <<>>]_vars
    /\ [](Len(calls) <= Cardinality(orig_selected \cap Meshes))
    /\ [](pc = "done" =>
             /\ queue = <<>>
             /\ Len(rets) = Len(calls)
             /\ \A o \in objects \cap Meshes : location[o] = matrix_world[o]
             /\ calls # <<>> => \A o \in objects : location[o] = location0[o]
             /\ result = "FINISHED" => selected = (orig_selected \cap objects) \ hidden)

\* A finished call that went through the fallback and invoked the exporter
\* once for each of at least two selected meshes
C29_Witness ==
    /\ pc = "done"
    /\ result = "FINISHED"
    /\ depth = 1
    /\ Len(calls) >= 2
    /\ Len(calls) = Cardinality(orig_selected \cap Meshes)
====
